---- MODULE Spec2Model ----
(***************************************************************************)
(* A model of the graph ingestion session (src/ingestion.py) and of the    *)
(* partition reorganization scripts (src/partitioned_schema.py,            *)
(* src/date_and_range_partitioned_age_schema.py).                          *)
(*                                                                         *)
(* The store is PostgreSQL with autocommit on: every statement is its own  *)
(* transaction, it either takes effect as a whole or fails with no effect. *)
(***************************************************************************)
EXTENDS Integers, Sequences, FiniteSets, TLC

(***************************************************************************)
(* Bounds of the model.                                                    *)
(***************************************************************************)
MaxRows == 2
MaxFaults == 2

MaxOps == 3
MaxLen == 3
MaxBatch == 2

MaxCalls == 2
MaxYearsAhead == 2
MaxDrift == 2
MaxKeep == 3
MaxStr == 3
MaxIds == 3
MaxIdValue == 2
MaxSessions == 2

(***************************************************************************)
(* PART I.  Partition reorganization.                                      *)
(***************************************************************************)
VARIABLES
    script,     \* the script that runs
    plan,       \* the id ranges its PARTITION OF statements declare
    task,       \* position of the label loop
    pc,         \* the next statement of the current label
    child,      \* position of the child-partition statements
    tables,     \* the store: the table of each label
    temps,      \* the store: the shadow (_temp) table of each label
    orig,       \* the rows of each table when the run started
    faults,     \* failures injected so far
    failed,     \* per label, the statement that raised into the except clause
    rbFault,    \* per label, the restore statement an injected failure hit
    report      \* per label, the lines printed

reorgVars == <<script, plan, task, pc, child, tables, temps, orig, faults,
               failed, rbFault, report>>

\* The ingestion session (PART II).
VARIABLES
    vstore,             \* the graph: vertex records
    estore,             \* the graph: edge records
    nextId,             \* the id the store gives to the next record
    vertex_id_mapping,  \* self.vertex_id_mapping
    call,               \* the public method that runs, or ran last
    todo,               \* batch calls the running method has still to make
    ipc,                \* the batch function that executes, or "idle"
    batch,              \* position of that batch call within the method
    input_len,          \* len(vertices) / len(edges)
    batch_size,
    loop_i,             \* i of the outer loop
    batch_ids,
    ids,                \* vertex_ids / edge_ids
    attempts,           \* the items the running method attempted, in order
    callV,              \* the vertices the running method was given
    returned,           \* what the batch function that ended last returned
    raised,             \* the running method raised to its caller
    ops,                \* items attempted in the session
    connected,          \* the store connection is usable
    item                \* the edge the running method attempted last

ingestVars == <<vstore, estore, nextId, vertex_id_mapping, call, todo, ipc,
                batch, input_len, batch_size, loop_i, batch_ids, ids, attempts, callV,
                returned, raised, ops, connected, item>>

\* The indexing step that ends both scripts.
VARIABLES
    ipos,       \* position of the indexing loop over the labels
    indexes,    \* the store: the indexes of each table
    ilog        \* per label, the line the indexing loop printed

indexVars == <<ipos, indexes, ilog>>

\* The life of the ingestion sessions (PART V).
VARIABLES
    session,    \* where the current session is: new, in, closed, failed
    open_conns, \* the connections opened and not closed
    nsess,      \* the number of the current session
    earlier     \* the external ids the sessions before registered

sessVars == <<session, open_conns, nsess, earlier>>

\* The inputs and outputs of the pure functions (PART IV).
VARIABLES
    pfun,       \* which function is applied
    pval,       \* a string property value
    pquery,     \* the statement text built for it
    pids,       \* a list of results of a batch
    plog        \* the counts logged for it

pureVars == <<pfun, pval, pquery, pids, plog>>

\* The maintenance utilities of the date-and-range script (PART III).
VARIABLES
    mop,        \* the utility that runs: "none", "add"
    mnow,       \* datetime.now().year of the running utility
    myear,      \* year of the loop of add_future_date_partitions
    mlast,      \* last year of that loop; cutoff_year of the cleanup
    mlog,       \* lines the utility that ran last has printed
    warned,     \* partitions cleanup_old_date_partitions warned about
    mcalls      \* utility calls made

maintVars == <<mop, mnow, myear, mlast, mlog, warned, mcalls>>

\* Bounds of the id ranges written in the CREATE TABLE ... PARTITION OF
\* statements, and the year the clock gives to datetime.now().year.
IdBound1 == 1000000
IdBound2 == 2000000
CurrentYear == 2026

\* The two scripts that reorganize label tables.
Scripts == {"partitioned_schema", "date_and_range"}

\* The labels each script reorganizes, in loop order, with the strategy of
\* the loop they are in.  For the date-and-range script the first label of
\* the date loop and the first of the id loop stand for their loops.
Tasks(s) ==
    IF s = "partitioned_schema"
    THEN << [label |-> "Person", strategy |-> "id"],
            [label |-> "Product", strategy |-> "id"] >>
    ELSE << [label |-> "Person", strategy |-> "date"],
            [label |-> "Product", strategy |-> "id"] >>

\* label.lower(): the table of a label, and the name the shadow is renamed to.
Lower(label) ==
    CASE label = "Person" -> "person"
      [] label = "Product" -> "product"
      [] OTHER -> label

TableNames == {"person", "product"}

\* A table of the store: absent, a flat table holding rows, or a partitioned
\* parent whose rows live in its child partitions.
Absent == [kind |-> "absent", rows |-> {}, parts |-> <<>>, key |-> "none"]
Flat(rows) == [kind |-> "flat", rows |-> rows, parts |-> <<>>, key |-> "none"]
Parent(strategy) == [kind |-> "part", rows |-> {}, parts |-> <<>>, key |-> strategy]

\* Rows: the id column and the date property of the properties column
\* (absent, or a date of some year).
RowUniverse ==
    { [id |-> 500000, dk |-> "valid", year |-> CurrentYear - 1],
      [id |-> 1500000, dk |-> "absent", year |-> 0],
      [id |-> 2500000, dk |-> "valid", year |-> CurrentYear - 10] }

RowSets == { S \in SUBSET RowUniverse : Cardinality(S) <= MaxRows }

\* The id ranges as the scripts write them.
CodeIdPlan ==
    [bounds |-> << [lo |-> 0, hi |-> IdBound1, open |-> FALSE],
                   [lo |-> IdBound1, hi |-> IdBound2, open |-> FALSE],
                   [lo |-> IdBound2, hi |-> 0, open |-> TRUE] >>,
     dflt |-> FALSE]

\* The same statements with the ranges edited ("adjust ranges based on your
\* data"): an overlapping and a non-contiguous set of ranges.
OverlapIdPlan ==
    [bounds |-> << [lo |-> 0, hi |-> IdBound1, open |-> FALSE],
                   [lo |-> 500000, hi |-> IdBound2, open |-> FALSE],
                   [lo |-> IdBound2, hi |-> 0, open |-> TRUE] >>,
     dflt |-> FALSE]

GapIdPlan ==
    [bounds |-> << [lo |-> 0, hi |-> IdBound1, open |-> FALSE],
                   [lo |-> IdBound2, hi |-> 0, open |-> TRUE] >>,
     dflt |-> FALSE]

IdPlans == {CodeIdPlan, OverlapIdPlan, GapIdPlan}

\* for year in range(current_year - 2, current_year + 2), then DEFAULT.
DatePlan ==
    [bounds |-> [k \in 1..4 |-> [lo |-> CurrentYear - 3 + k,
                                 hi |-> CurrentYear - 2 + k,
                                 open |-> FALSE]],
     dflt |-> TRUE]

PlanOf(t) == IF t.strategy = "date" THEN DatePlan ELSE plan

\* The ranges of the other PARTITION OF statements of the repository: the id
\* ranges of the edge tables (date-and-range script), the id ranges of the
\* City table and the years of the created_at partitions (create_schema).
EdgeIdPlan ==
    [bounds |-> << [lo |-> 0, hi |-> 500000, open |-> FALSE],
                   [lo |-> 500000, hi |-> 1000000, open |-> FALSE],
                   [lo |-> 1000000, hi |-> 0, open |-> TRUE] >>,
     dflt |-> FALSE]

CityIdPlan ==
    [bounds |-> << [lo |-> 1, hi |-> 1000, open |-> FALSE],
                   [lo |-> 1001, hi |-> 2000, open |-> FALSE],
                   [lo |-> 2001, hi |-> 0, open |-> TRUE] >>,
     dflt |-> FALSE]

CreatedAtPlan ==
    [bounds |-> << [lo |-> 2023, hi |-> 2024, open |-> FALSE],
                   [lo |-> 2024, hi |-> 2025, open |-> FALSE],
                   [lo |-> 2025, hi |-> 2026, open |-> FALSE] >>,
     dflt |-> FALSE]

DeclaredPlans == {CodeIdPlan, EdgeIdPlan, DatePlan, CityIdPlan, CreatedAtPlan}

\* Bounds are contiguous and non-overlapping in declaration order, and only
\* the last may be open-ended.
WellFormed(p) ==
    /\ \A k \in 1..Len(p.bounds) :
          /\ (p.bounds[k].open => k = Len(p.bounds))
          /\ (~p.bounds[k].open => p.bounds[k].lo < p.bounds[k].hi)
    /\ \A k \in 1..(Len(p.bounds) - 1) : p.bounds[k].hi = p.bounds[k + 1].lo

----------------------------------------------------------------------------
(* The store's range partitioning. *)

InRange(b, v) == b.lo <= v /\ (b.open \/ v < b.hi)

Overlaps(a, b) ==
    /\ (b.open \/ a.lo < b.hi)
    /\ (a.open \/ b.lo < a.hi)

\* CREATE TABLE ... PARTITION OF ... FOR VALUES FROM (lo) TO (hi) is refused
\* when the range is empty or overlaps a partition already attached.
CanAttach(parts, b) ==
    /\ (b.open \/ b.lo < b.hi)
    /\ \A i \in 1..Len(parts) : parts[i].dflt \/ ~Overlaps(parts[i], b)

RangePart(tag, n, b) ==
    [tag |-> tag, n |-> n, lo |-> b.lo, hi |-> b.hi, open |-> b.open,
     dflt |-> FALSE, rows |-> {}]

DefaultPart ==
    [tag |-> "default", n |-> 0, lo |-> 0, hi |-> 0, open |-> FALSE,
     dflt |-> TRUE, rows |-> {}]

\* The partition key of a row: the id column, or (properties->>date)::DATE,
\* which is NULL when the property is absent.
KeyOf(row, strategy) ==
    IF strategy = "id" THEN [null |-> FALSE, v |-> row.id]
    ELSE IF row.dk = "valid" THEN [null |-> FALSE, v |-> row.year]
    ELSE [null |-> TRUE, v |-> 0]

\* The child partition that takes a key: the range holding it, else the
\* default partition, else none (0).
Route(parts, key) ==
    LET hits == { i \in 1..Len(parts) :
                    ~parts[i].dflt /\ ~key.null /\ InRange(parts[i], key.v) }
        dflts == { i \in 1..Len(parts) : parts[i].dflt }
    IN  IF hits # {} THEN CHOOSE i \in hits : TRUE
        ELSE IF dflts # {} THEN CHOOSE i \in dflts : TRUE
        ELSE 0

\* INSERT INTO parent SELECT ...: refused as a whole when some row has no
\* partition.
CanInsert(tbl, rows) ==
    /\ tbl.kind = "part"
    /\ \A r \in rows : Route(tbl.parts, KeyOf(r, tbl.key)) # 0

InsertInto(tbl, rows) ==
    [tbl EXCEPT !.parts =
        [i \in 1..Len(tbl.parts) |->
            [tbl.parts[i] EXCEPT !.rows =
                @ \cup { r \in rows : Route(tbl.parts, KeyOf(r, tbl.key)) = i }]]]

RECURSIVE SumRows(_, _)
SumRows(parts, k) ==
    IF k = 0 THEN 0 ELSE Cardinality(parts[k].rows) + SumRows(parts, k - 1)

\* SELECT * FROM table: the rows of a flat table or of all child partitions.
AllRows(tbl) ==
    IF tbl.kind = "part"
    THEN UNION { tbl.parts[i].rows : i \in 1..Len(tbl.parts) }
    ELSE tbl.rows

RowCount(tbl) ==
    IF tbl.kind = "part" THEN SumRows(tbl.parts, Len(tbl.parts))
    ELSE Cardinality(tbl.rows)

----------------------------------------------------------------------------
(* The statements of one reorganization and what each does to the store. *)

\* CREATE TABLE temp AS SELECT * FROM table: a flat copy of the rows.
CopyTable(tbl) == Flat(AllRows(tbl))

\* DROP TABLE [IF EXISTS] name: a partitioned parent goes with its children.
DropTable(tbls, t) == [tbls EXCEPT ![t] = Absent]

\* A restore that leaves the half-built table in place.
DropIfExistsSkipped(tbls, t) == tbls

\* DROP TABLE IF EXISTS table, the first statement of the restore.
DropIfExists(tbls, t) == DropTable(tbls, t)

\* WHERE properties ? date_column
DatedRows(rows) == { r \in rows : r.dk # "absent" }

\* A repopulation without the second INSERT.
NoDateRowsOmitted(rows) == {}

\* properties || jsonb_build_object(date_column, CURRENT_DATE)
\* ... WHERE NOT (properties ? date_column)
NoDateRows(rows) ==
    { [r EXCEPT !.dk = "valid", !.year = CurrentYear] :
        r \in { x \in rows : x.dk = "absent" } }

\* The rows the first INSERT of a strategy selects from the shadow table.
FirstInsertRows(strategy, rows) ==
    IF strategy = "date" THEN DatedRows(rows) ELSE rows

Cur == Tasks(script)[task]
T == Lower(Cur.label)
Running == task <= Len(Tasks(script))
\* A label loop that gives up the run after a label.
NextPcAborts == "done"

NextPc == IF task = Len(Tasks(script)) THEN "done" ELSE "backup"

\* A statement raises: it would fail in the store (~ok), or the failure is
\* injected (connection, permission, disk).  The except clause prints the
\* error and starts the restore.
Raise(stmt, ok) ==
    /\ (~ok \/ faults < MaxFaults)
    /\ faults' = IF ok THEN faults + 1 ELSE faults
    /\ failed' = [failed EXCEPT ![T] = stmt]
    /\ report' = [report EXCEPT ![T] = Append(@, "error")]
    /\ pc' = "rb_drop"
    /\ UNCHANGED rbFault

BackupOk == tables[T].kind # "absent" /\ temps[T].kind = "absent"

Backup ==
    /\ Running /\ pc = "backup"
    /\ \/ /\ BackupOk
          /\ temps' = [temps EXCEPT ![T] = CopyTable(tables[T])]
          /\ pc' = "drop"
          /\ UNCHANGED <<tables, faults, failed, rbFault, report>>
       \/ /\ Raise("backup", BackupOk)
          /\ UNCHANGED <<tables, temps>>
    /\ UNCHANGED <<script, plan, task, child, orig>>
    /\ UNCHANGED <<ingestVars, maintVars, indexVars, pureVars, sessVars>>

DropOriginalOk == tables[T].kind # "absent"

DropOriginal ==
    /\ Running /\ pc = "drop"
    /\ \/ /\ DropOriginalOk
          /\ tables' = DropTable(tables, T)
          /\ pc' = "create_parent"
          /\ UNCHANGED <<temps, faults, failed, rbFault, report>>
       \/ /\ Raise("drop", DropOriginalOk)
          /\ UNCHANGED <<tables, temps>>
    /\ UNCHANGED <<script, plan, task, child, orig>>
    /\ UNCHANGED <<ingestVars, maintVars, indexVars, pureVars, sessVars>>

CreateParentOk == tables[T].kind = "absent"

CreateParent ==
    /\ Running /\ pc = "create_parent"
    /\ \/ /\ CreateParentOk
          /\ tables' = [tables EXCEPT ![T] = Parent(Cur.strategy)]
          /\ pc' = "create_child"
          /\ child' = 1
          /\ UNCHANGED <<temps, faults, failed, rbFault, report>>
       \/ /\ Raise("create_parent", CreateParentOk)
          /\ UNCHANGED <<tables, temps, child>>
    /\ UNCHANGED <<script, plan, task, orig>>
    /\ UNCHANGED <<ingestVars, maintVars, indexVars, pureVars, sessVars>>

CreateChildOk ==
    /\ tables[T].kind = "part"
    /\ CanAttach(tables[T].parts, PlanOf(Cur).bounds[child])

ChildTag(strategy) == IF strategy = "date" THEN "y" ELSE "p"
ChildNo(strategy, k, b) == IF strategy = "date" THEN b.lo ELSE k

CreateChild ==
    /\ Running /\ pc = "create_child"
    /\ LET p == PlanOf(Cur)
           b == p.bounds[child]
       IN \/ /\ CreateChildOk
             /\ tables' = [tables EXCEPT ![T].parts =
                   Append(@, RangePart(ChildTag(Cur.strategy),
                                       ChildNo(Cur.strategy, child, b), b))]
             /\ child' = child + 1
             /\ pc' = IF child < Len(p.bounds) THEN "create_child"
                      ELSE IF p.dflt THEN "create_default" ELSE "insert"
             /\ UNCHANGED <<temps, faults, failed, rbFault, report>>
          \/ /\ Raise("create_child", CreateChildOk)
             /\ UNCHANGED <<tables, temps, child>>
    /\ UNCHANGED <<script, plan, task, orig>>
    /\ UNCHANGED <<ingestVars, maintVars, indexVars, pureVars, sessVars>>

CreateDefaultOk ==
    /\ tables[T].kind = "part"
    /\ \A i \in 1..Len(tables[T].parts) : ~tables[T].parts[i].dflt

CreateDefault ==
    /\ Running /\ pc = "create_default"
    /\ \/ /\ CreateDefaultOk
          /\ tables' = [tables EXCEPT ![T].parts = Append(@, DefaultPart)]
          /\ pc' = "insert"
          /\ UNCHANGED <<temps, faults, failed, rbFault, report>>
       \/ /\ Raise("create_default", CreateDefaultOk)
          /\ UNCHANGED <<tables, temps>>
    /\ UNCHANGED <<script, plan, task, child, orig>>
    /\ UNCHANGED <<ingestVars, maintVars, indexVars, pureVars, sessVars>>

InsertRowsOk ==
    /\ temps[T].kind # "absent"
    /\ CanInsert(tables[T], FirstInsertRows(Cur.strategy, temps[T].rows))

InsertRows ==
    /\ Running /\ pc = "insert"
    /\ \/ /\ InsertRowsOk
          /\ tables' = [tables EXCEPT ![T] =
                InsertInto(@, FirstInsertRows(Cur.strategy, temps[T].rows))]
          /\ pc' = IF Cur.strategy = "date" THEN "insert_nodate" ELSE "drop_temp"
          /\ UNCHANGED <<temps, faults, failed, rbFault, report>>
       \/ /\ Raise("insert", InsertRowsOk)
          /\ UNCHANGED <<tables, temps>>
    /\ UNCHANGED <<script, plan, task, child, orig>>
    /\ UNCHANGED <<ingestVars, maintVars, indexVars, pureVars, sessVars>>

InsertNoDateOk ==
    /\ temps[T].kind # "absent"
    /\ CanInsert(tables[T], NoDateRows(temps[T].rows))

InsertNoDate ==
    /\ Running /\ pc = "insert_nodate"
    /\ \/ /\ InsertNoDateOk
          /\ tables' = [tables EXCEPT ![T] =
                InsertInto(@, NoDateRows(temps[T].rows))]
          /\ pc' = "drop_temp"
          /\ UNCHANGED <<temps, faults, failed, rbFault, report>>
       \/ /\ Raise("insert_nodate", InsertNoDateOk)
          /\ UNCHANGED <<tables, temps>>
    /\ UNCHANGED <<script, plan, task, child, orig>>
    /\ UNCHANGED <<ingestVars, maintVars, indexVars, pureVars, sessVars>>

DropTempOk == temps[T].kind # "absent"

\* DROP TABLE temp, then the success line is printed and the loop goes on.
DropTemp ==
    /\ Running /\ pc = "drop_temp"
    /\ \/ /\ DropTempOk
          /\ temps' = DropTable(temps, T)
          /\ report' = [report EXCEPT ![T] = Append(@, "success")]
          /\ pc' = NextPc
          /\ task' = task + 1
          /\ UNCHANGED <<tables, faults, failed, rbFault>>
       \/ /\ Raise("drop_temp", DropTempOk)
          /\ UNCHANGED <<tables, temps, task>>
    /\ UNCHANGED <<script, plan, child, orig>>
    /\ UNCHANGED <<ingestVars, maintVars, indexVars, pureVars, sessVars>>

\* The restore: DROP TABLE IF EXISTS table; ALTER TABLE temp RENAME TO
\* label.lower(), both in one try whose failure is swallowed (the
\* date-and-range helper prints the outcome, partitioned_schema prints
\* nothing).
RestoreLine(s, line) == IF s = "date_and_range" THEN <<line>> ELSE <<>>

RollbackDrop ==
    /\ Running /\ pc = "rb_drop"
    /\ \/ /\ tables' = DropIfExists(tables, T)
          /\ pc' = "rb_rename"
          /\ UNCHANGED <<task, faults, rbFault, report>>
       \/ /\ faults < MaxFaults
          /\ faults' = faults + 1
          /\ rbFault' = [rbFault EXCEPT ![T] = "rb_drop"]
          /\ report' = [report EXCEPT ![T] =
                @ \o RestoreLine(script, "restore_failed")]
          /\ pc' = NextPc
          /\ task' = task + 1
          /\ UNCHANGED tables
    /\ UNCHANGED <<script, plan, child, temps, orig, failed>>
    /\ UNCHANGED <<ingestVars, maintVars, indexVars, pureVars, sessVars>>

RollbackRenameOk == temps[T].kind # "absent" /\ tables[T].kind = "absent"

RollbackRename ==
    /\ Running /\ pc = "rb_rename"
    /\ \/ /\ RollbackRenameOk
          /\ tables' = [tables EXCEPT ![Lower(Cur.label)] = temps[T]]
          /\ temps' = DropTable(temps, T)
          /\ report' = [report EXCEPT ![T] = @ \o RestoreLine(script, "restored")]
          /\ UNCHANGED <<faults, rbFault>>
       \/ /\ (~RollbackRenameOk \/ faults < MaxFaults)
          /\ faults' = IF RollbackRenameOk THEN faults + 1 ELSE faults
          /\ rbFault' = [rbFault EXCEPT ![T] =
                IF RollbackRenameOk THEN "rb_rename" ELSE @]
          /\ report' = [report EXCEPT ![T] =
                @ \o RestoreLine(script, "restore_failed")]
          /\ UNCHANGED <<tables, temps>>
    /\ pc' = NextPc
    /\ task' = task + 1
    /\ UNCHANGED <<script, plan, child, orig, failed>>
    /\ UNCHANGED <<ingestVars, maintVars, indexVars, pureVars, sessVars>>

\* A session right after __init__ and connect(), on an empty graph, with no
\* edge attempted yet.
NoItem == [label |-> "<none>"]
\* Nothing has been logged.
NoLog == [successful |-> 0 - 1, failed |-> 0 - 1]

NoReturn == [batch |-> 0, kind |-> "none", n |-> 0, ids |-> <<>>, log |-> NoLog]
EmptyMap == [x \in {} |-> 0]

\* __init__, and the state of the loops before any call.
ObjectInit ==
    /\ vstore = {}
    /\ estore = {}
    /\ nextId = 1
    /\ vertex_id_mapping = EmptyMap
    /\ call = "none"
    /\ todo = <<>>
    /\ ipc = "idle"
    /\ batch = 0
    /\ input_len = 0
    /\ batch_size = 1
    /\ loop_i = 0
    /\ batch_ids = <<>>
    /\ ids = <<>>
    /\ attempts = <<>>
    /\ callV = 0
    /\ returned = NoReturn
    /\ raised = FALSE
    /\ ops = 0
    /\ item = NoItem

\* A session whose with-block has been entered.
SessionInit ==
    /\ ObjectInit
    /\ connected = TRUE
    /\ session = "in" /\ open_conns = 1 /\ nsess = 1 /\ earlier = {}

\* No pure function is under study.
PureQuiet ==
    /\ pfun = "none" /\ pval = <<>> /\ pquery = <<>>
    /\ pids = <<>> /\ plog = NoLog

\* No maintenance utility has run.
MaintQuiet ==
    /\ mop = "none"
    /\ mnow = CurrentYear
    /\ myear = 0
    /\ mlast = 0
    /\ mlog = <<>>
    /\ warned = {}
    /\ mcalls = 0

\* for label in VERTEX_LABELS, in the indexing step.
IndexOrder == <<"person", "product">>

\* No index has been created.
IndexInit ==
    /\ ipos = 1
    /\ indexes = [t \in TableNames |-> {}]
    /\ ilog = [t \in TableNames |-> "none"]

\* An indexing loop that stops at the first label whose index fails.
NextIndexPosAborts(ok) == IF ok THEN ipos + 1 ELSE Len(IndexOrder) + 1

\* The try/except is inside the loop: the loop goes on to the next label.
NextIndexPos(ok) == ipos + 1

\* CREATE INDEX IF NOT EXISTS ... ON table: raises when the table is missing.
CanIndex(tbl) == tbl.kind # "absent"

\* One pass of the indexing loop, entered when the label loop is done: the
\* index on id and the GIN index on properties are created and the success
\* line printed, or a statement raises (with the indexes created before it
\* kept) and the error line is printed.
IndexLabel ==
    /\ pc = "done" /\ ipos <= Len(IndexOrder)
    /\ LET t == IndexOrder[ipos]
       IN \/ /\ CanIndex(tables[t])
             /\ indexes' = [indexes EXCEPT ![t] = @ \cup {"id", "properties_gin"}]
             /\ ilog' = [ilog EXCEPT ![t] = "indexed"]
             /\ ipos' = NextIndexPos(TRUE)
             /\ UNCHANGED faults
          \/ /\ (~CanIndex(tables[t]) \/ faults < MaxFaults)
             /\ faults' = IF CanIndex(tables[t]) THEN faults + 1 ELSE faults
             /\ \E made \in (IF CanIndex(tables[t]) THEN {{}, {"id"}} ELSE {{}}) :
                   indexes' = [indexes EXCEPT ![t] = @ \cup made]
             /\ ilog' = [ilog EXCEPT ![t] = "error"]
             /\ ipos' = NextIndexPos(FALSE)
    /\ UNCHANGED <<script, plan, task, pc, child, tables, temps, orig, failed,
                   rbFault, report>>
    /\ UNCHANGED <<ingestVars, maintVars, pureVars, sessVars>>

InitReorg ==
    /\ SessionInit
    /\ MaintQuiet
    /\ IndexInit
    /\ PureQuiet
    /\ script \in Scripts
    /\ plan \in IdPlans
    /\ task = 1
    /\ pc = "backup"
    /\ child = 1
    /\ tables \in [TableNames -> { Flat(S) : S \in RowSets }]
    /\ temps = [t \in TableNames |-> Absent]
    /\ orig = [t \in TableNames |-> tables[t].rows]
    /\ faults = 0
    /\ failed = [t \in TableNames |-> "none"]
    /\ rbFault = [t \in TableNames |-> "none"]
    /\ report = [t \in TableNames |-> <<>>]

NextReorg ==
    \/ Backup
    \/ DropOriginal
    \/ CreateParent
    \/ CreateChild
    \/ CreateDefault
    \/ InsertRows
    \/ InsertNoDate
    \/ DropTemp
    \/ RollbackDrop
    \/ RollbackRename
    \/ IndexLabel

vars == <<reorgVars, ingestVars, maintVars, indexVars, pureVars, sessVars>>

SpecReorg == InitReorg /\ [][NextReorg]_vars

----------------------------------------------------------------------------
(* Properties of the reorganization. *)

TaskOf(t) ==
    CHOOSE k \in 1..Len(Tasks(script)) : Lower(Tasks(script)[k].label) = t

\* The loop has left label t behind.
Finished(t) == task > TaskOf(t)

Succeeded(t) == \E i \in 1..Len(report[t]) : report[t][i] = "success"

\* The success line reports no skipped rows.
ReportedSkipped == 0

\* C1: when the backup copy fails the run leaves the original table in place
\* with all its rows, and the original table is never dropped while no
\* shadow table holds its rows.
C1_BackupFailureIsNotDestructive ==
    \A t \in TableNames :
        orig[t] # {} =>
            /\ (Finished(t) /\ failed[t] = "backup" => tables[t] = Flat(orig[t]))
            /\ (tables[t].kind = "absent" => temps[t] = Flat(orig[t]))

C10_SuccessConservesRowCount ==
    \A t \in TableNames :
        Succeeded(t) =>
            /\ tables[t].kind = "part"
            /\ SumRows(tables[t].parts, Len(tables[t].parts)) + ReportedSkipped
                   = Cardinality(orig[t])

C10_Witness ==
    \E t \in TableNames :
        /\ Succeeded(t)
        /\ tables[t].key = "date"
        /\ Cardinality(orig[t]) = MaxRows
        /\ \E r \in orig[t] : r.dk = "absent"
        /\ \E r \in orig[t] : r.dk = "valid"

\* The child partitions of table t that hold a row with the id of r.
HomeOf(t, r) ==
    { i \in 1..Len(tables[t].parts) :
        \E x \in tables[t].parts[i].rows : x.id = r.id }

\* C11: after a date-partitioned table with a catch-all partition has been
\* repopulated, every row that had no date property is in the catch-all
\* partition and in no other, and every row whose date lies in a declared
\* range is in the child partition of that range.
C11_NoDateRowsLandInDefault ==
    \A t \in TableNames :
        (Succeeded(t) /\ tables[t].kind = "part" /\ tables[t].key = "date") =>
            \A r \in orig[t] :
                /\ HomeOf(t, r) # {}
                /\ \A i \in HomeOf(t, r) :
                      IF r.dk = "absent"
                      THEN tables[t].parts[i].dflt
                      ELSE (\E k \in 1..Len(DatePlan.bounds) :
                                InRange(DatePlan.bounds[k], r.year))
                              => (/\ ~tables[t].parts[i].dflt
                                  /\ InRange(tables[t].parts[i], r.year))

\* C13: whatever statement fails, once the loop has left a label behind no
\* shadow table of that label is left in the store: it was dropped after the
\* repopulation or renamed back to the original name.
C13_NoShadowLeftBehind ==
    \A t \in TableNames : Finished(t) => temps[t] = Absent

\* C14: when the DROP TABLE IF EXISTS of the restore fails, the rename of the
\* shadow table is attempted all the same (it is the next statement), and a
\* line about the outcome is printed.
C14_RenameAttemptedAfterFailedDrop ==
    [][ (Running /\ pc = "rb_drop" /\ temps[T] # Absent
            /\ rbFault'[T] = "rb_drop") =>
            /\ pc' = "rb_rename"
            /\ Len(report'[T]) > Len(report[T]) ]_vars

\* C15: the run comes to the DROP of the shadow table only from a statement
\* that compares the row count of the new table with that of the shadow
\* minus the reported skips, and the shadow is dropped on the success path
\* only when the two are equal.
C15_ShadowDroppedOnlyAfterCountCheck ==
    [][ /\ (Running /\ pc # "drop_temp" /\ pc' = "drop_temp") =>
              pc = "compare_counts"
        /\ (Running /\ pc = "drop_temp" /\ temps[T] # Absent
              /\ temps'[T] = Absent) =>
              RowCount(tables[T]) = RowCount(temps[T]) - ReportedSkipped ]_vars

\* The range partitions attached to a table, in declaration order, and the
\* number of its catch-all partitions.
RangesOf(tbl) == SelectSeq(tbl.parts, LAMBDA c : ~c.dflt)
DefaultsOf(tbl) == { i \in 1..Len(tbl.parts) : tbl.parts[i].dflt }

\* C20: every set of ranges the code declares for one parent table is
\* contiguous and non-overlapping in declaration order, with only the last
\* range open-ended, and the partitions a run of the scripts attaches to a
\* table with the ranges as written are contiguous, with at most one
\* catch-all partition.
C20_DeclaredRangesAreContiguous ==
    /\ \A p \in DeclaredPlans : WellFormed(p)
    /\ \A t \in TableNames :
          (tables[t].kind = "part"
              /\ (tables[t].key = "date" \/ plan = CodeIdPlan)) =>
              /\ WellFormed([bounds |-> RangesOf(tables[t])])
              /\ Cardinality(DefaultsOf(tables[t])) <= 1

(***************************************************************************)
(* PART II.  The ingestion session of src/ingestion.py.                    *)
(***************************************************************************)

\* def ingest_vertices_batch(self, vertices, batch_size: int = 1000)
DefaultBatchSize == 1000

NoExt == "<None>"       \* external_id=None
NoProp == "<absent>"    \* the property is not in the map
NoLabel == "<None>"     \* start_vertex_label=None

VLabels == {"Person", "Company"}
ExtIds == {"x1", "x2"}

\* Property maps: a name, and possibly an external_id property.
Props == { [name |-> "n1", external_id |-> NoProp],
           [name |-> "n1", external_id |-> "x1"] }

VData(label, properties, external_id) ==
    [label |-> label, properties |-> properties, external_id |-> external_id]

\* The vertices given to the session: a Person and a Company under the same
\* external id, a Company under another one, and a Person that carries its
\* key as a property and has no external_id.
VertexData ==
    { VData("Person", [name |-> "n1", external_id |-> NoProp], "x1"),
      VData("Company", [name |-> "n1", external_id |-> NoProp], "x1"),
      VData("Company", [name |-> "n1", external_id |-> NoProp], "x2"),
      VData("Person", [name |-> "n1", external_id |-> "x1"], NoExt) }

\* start_vertex_id / end_vertex_id: Union[int, str]
IntRef(k) == [int |-> TRUE, id |-> k, ext |-> NoExt]
ExtRef(x) == [int |-> FALSE, id |-> 0, ext |-> x]
Refs == { IntRef(1) } \cup { ExtRef(x) : x \in ExtIds }

\* The edges given to the session: any two references, with the label of
\* both ends given or of neither.
EdgeData ==
    { e \in [label : {"WORKS_AT"},
             start_vertex_id : Refs, end_vertex_id : Refs,
             start_vertex_label : {NoLabel, "Person"},
             end_vertex_label : {NoLabel, "Person"}] :
        e.start_vertex_label = e.end_vertex_label }

\* The items a method can be given: ingest_from_csv_files builds
\* external_id=str(row.get('id')) and start_vertex_id=str(row['start_id']).
VertexItems(method) ==
    IF method = "ingest_from_csv_files"
    THEN { v \in VertexData : v.external_id # NoExt }
    ELSE VertexData

EdgeItems(method) ==
    IF method = "ingest_from_csv_files"
    THEN { e \in EdgeData : ~e.start_vertex_id.int /\ ~e.end_vertex_id.int }
    ELSE EdgeData

\* An entry of vertex_ids / edge_ids: an id, or None.
Some(id) == [ok |-> TRUE, id |-> id]
None == [ok |-> FALSE, id |-> 0]

----------------------------------------------------------------------------
(* ingest_vertex *)

\* CREATE (v:label {properties}) RETURN id(v)
CreateVertex(vs, v, id) ==
    vs \cup { [id |-> id, label |-> v.label, properties |-> v.properties] }

\* A registration that forgets the entries made before.
RegisterForgets(m, ext, id) == [x \in {ext} |-> id]

\* self.vertex_id_mapping[external_id] = vertex_id
Register(m, ext, id) ==
    [x \in DOMAIN m \cup {ext} |-> IF x = ext THEN id ELSE m[x]]

\* An ingest_vertex that registers nothing.
StoreMappingSkipped(m, v, id) == m

\* if vertex_data.external_id: ...
StoreMapping(m, v, id) ==
    IF v.external_id # NoExt THEN Register(m, v.external_id, id) ELSE m

\* What ingest_vertex can do with v: the statement succeeds and the store
\* returns the new id, or it raises with nothing changed.
VertexOutcomes(v, m, vs, nid) ==
    { [map |-> StoreMapping(m, v, nid), vstore |-> CreateVertex(vs, v, nid),
       nextId |-> nid + 1, res |-> Some(nid)],
      [map |-> m, vstore |-> vs, nextId |-> nid, res |-> None] }

----------------------------------------------------------------------------
(* _resolve_vertex_id *)

\* MATCH (v:label) WHERE v.external_id = 'ref' RETURN id(v)
FallbackMatches(vs, label, ext) ==
    { v \in vs : v.label = label /\ v.properties.external_id = ext }

\* A resolver that answers an unresolvable reference with a vertex id.
UnresolvedGuessed(m, q) == [ok |-> TRUE, id |-> 1, map |-> m, q |-> q]

\* raise ValueError(f"Cannot resolve vertex ID: {vertex_id}")
Unresolved(m, q) == [ok |-> FALSE, id |-> 0, map |-> m, q |-> q]

\* A resolver that does not look into the mapping.
CachedNever(m, ref) == FALSE

\* if vertex_id in self.vertex_id_mapping
Cached(m, ref) == ref.ext \in DOMAIN m

\* The outcomes of resolving ref, with the number q of store statements the
\* call executes: an int is returned as is, a mapped external id gives the
\* mapped id; with a label the fallback query runs and fetchone() gives one
\* of its rows, which is cached; with no row, a failed query or no label,
\* ValueError is raised.
ResolveOutcomes(ref, label, m, vs) ==
    IF ref.int THEN { [ok |-> TRUE, id |-> ref.id, map |-> m, q |-> 0] }
    ELSE IF Cached(m, ref)
    THEN { [ok |-> TRUE, id |-> m[ref.ext], map |-> m, q |-> 0] }
    ELSE IF label = NoLabel THEN { Unresolved(m, 0) }
    ELSE { Unresolved(m, 1) }
         \cup { [ok |-> TRUE, id |-> v.id,
                 map |-> Register(m, ref.ext, v.id), q |-> 1] :
                v \in FallbackMatches(vs, label, ref.ext) }

----------------------------------------------------------------------------
(* ingest_edge *)

\* MATCH (a), (b) WHERE id(a) = start AND id(b) = end: one row when both
\* vertices exist, none otherwise.
EndpointsExist(vs, s, e) ==
    (\E a \in vs : a.id = s) /\ (\E b \in vs : b.id = e)

\* An ingest_edge that reuses an existing relationship (MERGE).
CreateEdgeMerged(es, e, s, t, id) ==
    IF \E x \in es : x.label = e.label /\ x.start = s /\ x.end = t
    THEN es
    ELSE es \cup { [id |-> id, label |-> e.label, start |-> s, end |-> t] }

\* CREATE (a)-[r:label {properties}]->(b) RETURN id(r)
CreateEdge(es, e, s, t, id) ==
    es \cup { [id |-> id, label |-> e.label, start |-> s, end |-> t] }

\* What ingest_edge can do with e: both ends are resolved in turn, then the
\* statement runs; it may fail, and it returns no row when an end is missing.
EdgeOutcomes(e, m, vs, es, nid) ==
    UNION { IF ~so.ok
            THEN { [map |-> so.map, estore |-> es, nextId |-> nid,
                    res |-> None] }
            ELSE UNION {
                { [map |-> eo.map, estore |-> es, nextId |-> nid,
                   res |-> None] }
                \cup (IF eo.ok /\ EndpointsExist(vs, so.id, eo.id)
                      THEN { [map |-> eo.map,
                              estore |-> CreateEdge(es, e, so.id, eo.id, nid),
                              nextId |-> nid + 1, res |-> Some(nid)] }
                      ELSE {})
                : eo \in ResolveOutcomes(e.end_vertex_id, e.end_vertex_label,
                                         so.map, vs) }
          : so \in ResolveOutcomes(e.start_vertex_id, e.start_vertex_label,
                                   m, vs) }

----------------------------------------------------------------------------
(* ingest_vertices_batch / ingest_edges_batch *)

Min(a, b) == IF a <= b THEN a ELSE b

\* batch = vertices[i:i + batch_size]
ChunkLen(len, off, bs) == Min(bs, len - off)

\* vertex_ids = batch_ids instead of extend.
ExtendReplaces(list, more) == more

\* vertex_ids.extend(batch_ids)
Extend(list, more) == list \o more

\* A batch loop without the try/except around the item.
CaughtNever(res) == FALSE

\* except Exception as e: ...; batch_ids.append(None)
CaughtByBatch(res) == TRUE

\* With the connection unusable every statement raises, and nothing changes.
VertexDown(m, vs, nid) ==
    [map |-> m, vstore |-> vs, nextId |-> nid, res |-> None]

EdgeDown(m, es, nid) ==
    [map |-> m, estore |-> es, nextId |-> nid, res |-> None]

\* A statement that raises may have found the connection broken; a broken
\* connection stays broken.
ConnAfter(c, res) ==
    IF ~c THEN {FALSE} ELSE IF res.ok THEN {TRUE} ELSE {TRUE, FALSE}

\* The external id a successful ingest_vertex registers, if any.
RegisteredBy(kind, item_, res) ==
    IF kind = "vertices" /\ res.ok THEN item_.external_id ELSE NoExt

\* One pass of the inner loop's body has produced res for the current item.
Record(kind, item_, res) ==
    LET idx == loop_i + Len(batch_ids) + 1
        b2 == Append(batch_ids, res)
        full == Len(b2) = ChunkLen(input_len, loop_i, batch_size)
    IN  /\ item' = IF kind = "edges" THEN item_ ELSE item
        /\ attempts' = Append(attempts, [batch |-> batch, kind |-> kind,
                                         idx |-> idx, res |-> res,
                                         ext |-> RegisteredBy(kind, item_, res)])
        /\ ops' = ops + 1
        /\ IF res.ok \/ CaughtByBatch(res)
           THEN /\ batch_ids' = IF full THEN <<>> ELSE b2
                /\ ids' = IF full THEN Extend(ids, b2) ELSE ids
                /\ loop_i' = IF full THEN loop_i + batch_size ELSE loop_i
                /\ UNCHANGED <<ipc, todo, raised>>
           ELSE /\ raised' = TRUE
                /\ ipc' = "idle"
                /\ todo' = <<>>
                /\ UNCHANGED <<batch_ids, ids, loop_i>>
        /\ UNCHANGED <<call, batch, input_len, batch_size, callV, returned>>

VertexItem ==
    /\ ipc = "vertices" /\ loop_i < input_len
    /\ \E v \in VertexItems(call) :
         \E o \in (IF connected
                   THEN VertexOutcomes(v, vertex_id_mapping, vstore, nextId)
                   ELSE { VertexDown(vertex_id_mapping, vstore, nextId) }) :
            /\ vertex_id_mapping' = o.map
            /\ vstore' = o.vstore
            /\ nextId' = o.nextId
            /\ connected' \in ConnAfter(connected, o.res)
            /\ Record("vertices", v, o.res)
    /\ UNCHANGED estore
    /\ UNCHANGED <<reorgVars, maintVars, indexVars, pureVars, sessVars>>

EdgeItem ==
    /\ ipc = "edges" /\ loop_i < input_len
    /\ \E e \in EdgeItems(call) :
         \E o \in (IF connected
                   THEN EdgeOutcomes(e, vertex_id_mapping, vstore, estore,
                                     nextId)
                   ELSE { EdgeDown(vertex_id_mapping, estore, nextId) }) :
            /\ vertex_id_mapping' = o.map
            /\ estore' = o.estore
            /\ nextId' = o.nextId
            /\ connected' \in ConnAfter(connected, o.res)
            /\ Record("edges", e, o.res)
    /\ UNCHANGED vstore
    /\ UNCHANGED <<reorgVars, maintVars, indexVars, pureVars, sessVars>>

\* The batch function starts: vertex_ids = [] and the outer loop at 0.
StartBatch(b, q) ==
    /\ ipc' = Head(q).kind
    /\ input_len' = Head(q).n
    /\ batch_size' = Head(q).bs
    /\ todo' = Tail(q)
    /\ batch' = b
    /\ loop_i' = 0
    /\ batch_ids' = <<>>
    /\ ids' = <<>>

\* if v / if not v on an entry of the result list: None and 0 are false.
Truthy(r) == r.ok /\ r.id # 0

\* len([v for v in vertex_ids if v]), len([v for v in vertex_ids if not v]).
LogCounts(l) ==
    [successful |-> Cardinality({j \in 1..Len(l) : Truthy(l[j])}),
     failed |-> Cardinality({j \in 1..Len(l) : ~Truthy(l[j])})]

\* The outer loop is exhausted: the counts are logged and the list returned;
\* the method goes on to its next batch call, or returns.
BatchReturn ==
    /\ ipc # "idle" /\ loop_i >= input_len
    /\ returned' = [batch |-> batch, kind |-> ipc, n |-> input_len, ids |-> ids,
                    log |-> LogCounts(ids)]
    /\ IF todo # <<>>
       THEN StartBatch(batch + 1, todo)
       ELSE /\ ipc' = "idle"
            /\ UNCHANGED <<todo, batch, input_len, batch_size, loop_i, batch_ids, ids>>
    /\ UNCHANGED <<vstore, estore, nextId, vertex_id_mapping, call, attempts,
                   callV, raised, ops, connected, item>>
    /\ UNCHANGED <<reorgVars, maintVars, indexVars, pureVars, sessVars>>

RECURSIVE Items(_, _)
Items(q, kind) ==
    IF q = <<>> THEN 0
    ELSE (IF Head(q).kind = kind THEN Head(q).n ELSE 0) + Items(Tail(q), kind)

\* A public method is called with an input whose batch calls are q.
Begin(method, q) ==
    /\ session = "in"
    /\ ipc = "idle"
    /\ ops < MaxOps
    /\ ops + Items(q, "vertices") + Items(q, "edges") <= MaxOps
    /\ call' = method
    /\ attempts' = <<>>
    /\ callV' = Items(q, "vertices")
    /\ returned' = NoReturn
    /\ raised' = FALSE
    /\ item' = NoItem
    /\ IF q # <<>>
       THEN StartBatch(1, q)
       ELSE /\ ipc' = "idle"
            /\ UNCHANGED <<todo, batch, input_len, batch_size, loop_i, batch_ids, ids>>
    /\ UNCHANGED <<vstore, estore, nextId, vertex_id_mapping, ops, connected>>
    /\ UNCHANGED <<reorgVars, maintVars, indexVars, pureVars, sessVars>>

BatchCall(kind, len, bs) == [kind |-> kind, n |-> len, bs |-> bs]

CallVerticesBatch ==
    \E len \in 0..MaxLen, bs \in 1..MaxBatch :
        Begin("ingest_vertices_batch", << BatchCall("vertices", len, bs) >>)

CallEdgesBatch ==
    \E len \in 0..MaxLen, bs \in 1..MaxBatch :
        Begin("ingest_edges_batch", << BatchCall("edges", len, bs) >>)

\* A bulk ingestion that takes the edges first.
DictTodoEdgesFirst(hasV, nv, hasE, ne) ==
    (IF hasE THEN << BatchCall("edges", ne, DefaultBatchSize) >> ELSE <<>>)
    \o (IF hasV THEN << BatchCall("vertices", nv, DefaultBatchSize) >> ELSE <<>>)

\* bulk_ingest_from_dict: the vertices of data, then its edges.
DictTodo(hasV, nv, hasE, ne) ==
    (IF hasV THEN << BatchCall("vertices", nv, DefaultBatchSize) >> ELSE <<>>)
    \o (IF hasE THEN << BatchCall("edges", ne, DefaultBatchSize) >> ELSE <<>>)

CallBulkFromDict ==
    \E hasV \in BOOLEAN, hasE \in BOOLEAN :
        \E nv \in (IF hasV THEN 0..MaxLen ELSE {0}),
           ne \in (IF hasE THEN 0..MaxLen ELSE {0}) :
            Begin("bulk_ingest_from_dict", DictTodo(hasV, nv, hasE, ne))

\* ingest_from_csv_files: one batch call per vertex file, then one per edge
\* file.
CsvTodo(vfiles, efiles) ==
    [k \in 1..Len(vfiles) |-> BatchCall("vertices", vfiles[k], DefaultBatchSize)]
    \o [k \in 1..Len(efiles) |-> BatchCall("edges", efiles[k], DefaultBatchSize)]

\* The row counts of the files given: up to two vertex files, up to one
\* edge file.
VertexFileLists == {<<>>} \cup { <<a>> : a \in 1..MaxLen }
                          \cup { <<a, b>> : a \in 1..MaxLen, b \in 1..MaxLen }
EdgeFileLists == {<<>>} \cup { <<a>> : a \in 1..MaxLen }

CallCsvFiles ==
    \E vfiles \in VertexFileLists, efiles \in EdgeFileLists :
        Begin("ingest_from_csv_files", CsvTodo(vfiles, efiles))

\* The indexing step has run.
IndexQuiet ==
    /\ ipos = Len(IndexOrder) + 1
    /\ indexes = [t \in TableNames |-> {"id", "properties_gin"}]
    /\ ilog = [t \in TableNames |-> "indexed"]

\* The reorganization scripts do not run during a session.
ReorgQuiet ==
    /\ script = "partitioned_schema"
    /\ plan = CodeIdPlan
    /\ task = Len(Tasks("partitioned_schema")) + 1
    /\ pc = "done"
    /\ child = 1
    /\ tables = [t \in TableNames |-> Flat({})]
    /\ temps = [t \in TableNames |-> Absent]
    /\ orig = [t \in TableNames |-> {}]
    /\ faults = 0
    /\ failed = [t \in TableNames |-> "none"]
    /\ rbFault = [t \in TableNames |-> "none"]
    /\ report = [t \in TableNames |-> <<>>]

Init == SessionInit /\ ReorgQuiet /\ MaintQuiet /\ IndexQuiet /\ PureQuiet

Next ==
    \/ CallVerticesBatch
    \/ CallEdgesBatch
    \/ CallBulkFromDict
    \/ CallCsvFiles
    \/ VertexItem
    \/ EdgeItem
    \/ BatchReturn

Spec == Init /\ [][Next]_vars

----------------------------------------------------------------------------
(* Properties of the ingestion session. *)

\* The attempts of the running method that batch call b made, in order.
AttemptsOf(b) == SelectSeq(attempts, LAMBDA a : a.batch = b)

\* sq attempts the items 1..m, each once, in input order.
InInputOrder(sq, m) == Len(sq) = m /\ \A p \in 1..m : sq[p].idx = p

C4_FailureDoesNotStopBatch ==
    /\ ~raised
    /\ ipc # "idle" =>
          InInputOrder(AttemptsOf(batch),
                       Min(loop_i, input_len) + Len(batch_ids))
    /\ returned.kind # "none" =>
          InInputOrder(AttemptsOf(returned.batch), returned.n)

C4_Witness ==
    /\ returned.kind = "edges"
    /\ returned.n = 2
    /\ LET sq == AttemptsOf(returned.batch)
       IN  Len(sq) = 2 /\ ~sq[1].res.ok /\ sq[2].res.ok

\* C5: within one bulk call no edge is attempted before every vertex of the
\* call has been attempted.
C5_VerticesBeforeEdges ==
    call \in {"bulk_ingest_from_dict", "ingest_from_csv_files"} =>
        \A p \in 1..Len(attempts) :
            attempts[p].kind = "edges" =>
                Cardinality({ q \in 1..(p - 1) : attempts[q].kind = "vertices" })
                    = callV

C5_Witness ==
    /\ call = "bulk_ingest_from_dict"
    /\ callV = 2
    /\ Len(attempts) = 3
    /\ attempts[3].kind = "edges" /\ attempts[3].res.ok

SameVertex(vs, label, properties) ==
    { v \in vs : v.label = label /\ v.properties = properties }

\* C6: once a vertex with some label and property map is in the graph,
\* ingesting it again does not add a vertex record.
C6_ReingestDoesNotAddVertex ==
    [][ \A label \in VLabels, properties \in Props :
            SameVertex(vstore, label, properties) # {} =>
                Cardinality(SameVertex(vstore', label, properties))
                    = Cardinality(SameVertex(vstore, label, properties)) ]_vars

\* C7: the graph's edges change exactly when ingest_edge succeeds, and then
\* by one new edge record whose id no existing edge has; an edge equal to an
\* existing one in label and ends is added all the same.
C7_EachEdgeIngestAddsOneEdge ==
    [][ LET done == /\ Len(attempts') = Len(attempts) + 1
                    /\ attempts'[Len(attempts')].kind = "edges"
                    /\ attempts'[Len(attempts')].res.ok
        IN  IF done
            THEN \E r \in estore' :
                    /\ r.id = attempts'[Len(attempts')].res.id
                    /\ \A x \in estore : x.id # r.id
                    /\ estore' = estore \cup {r}
                    /\ Cardinality(estore') = Cardinality(estore) + 1
            ELSE estore' = estore ]_vars

C7_Witness ==
    \E a \in estore, b \in estore :
        /\ a.id # b.id
        /\ a.label = b.label /\ a.start = b.start /\ a.end = b.end

\* C8: an entry of the identity map, once set, is never removed and never
\* changed to another id, so two resolutions of one external id agree.
C8_MappingEntryIsStable ==
    [][ \A x \in DOMAIN vertex_id_mapping :
            /\ x \in DOMAIN vertex_id_mapping'
            /\ vertex_id_mapping'[x] = vertex_id_mapping[x] ]_vars

\* The attempts before position p of the running method that registered the
\* external id x, and the id the last of them registered.
RegisteredBefore(x, p) == { q \in 1..(p - 1) : attempts[q].ext = x }

LastRegistered(x, p) ==
    LET q == CHOOSE q \in RegisteredBefore(x, p) :
                 \A r \in RegisteredBefore(x, p) : r <= q
    IN  attempts[q].res.id

BulkMethods == {"bulk_ingest_from_dict", "ingest_from_csv_files"}

\* e refers at both ends to external ids that vertices ingested before
\* position p of the running method registered.
RefersToRegistered(e, p) ==
    /\ ~e.start_vertex_id.int /\ ~e.end_vertex_id.int
    /\ RegisteredBefore(e.start_vertex_id.ext, p) # {}
    /\ RegisteredBefore(e.end_vertex_id.ext, p) # {}

\* C12: in one bulk call, an edge whose two references are external ids
\* registered by successfully ingested vertices of the call resolves, without
\* a store lookup, to the ids those vertices were given; ingest_edge can
\* succeed on it, and when it has succeeded the graph holds exactly one
\* relationship with the returned id, and it joins those two vertices.
C12_EdgeJoinsVerticesOfSameCall ==
    call \in BulkMethods =>
        /\ (ipc = "edges" /\ connected) =>
              \A e \in EdgeItems(call) :
                  LET p == Len(attempts) + 1
                      sid == LastRegistered(e.start_vertex_id.ext, p)
                      tid == LastRegistered(e.end_vertex_id.ext, p)
                  IN  RefersToRegistered(e, p) =>
                        /\ ResolveOutcomes(e.start_vertex_id, e.start_vertex_label,
                                           vertex_id_mapping, vstore)
                             = { [ok |-> TRUE, id |-> sid,
                                  map |-> vertex_id_mapping, q |-> 0] }
                        /\ ResolveOutcomes(e.end_vertex_id, e.end_vertex_label,
                                           vertex_id_mapping, vstore)
                             = { [ok |-> TRUE, id |-> tid,
                                  map |-> vertex_id_mapping, q |-> 0] }
                        /\ \E o \in EdgeOutcomes(e, vertex_id_mapping, vstore,
                                                 estore, nextId) :
                              /\ o.res.ok
                              /\ o.estore = estore \cup
                                    { [id |-> o.res.id, label |-> e.label,
                                       start |-> sid, end |-> tid] }
        /\ LET p == Len(attempts)
           IN  (/\ p > 0
                /\ attempts[p].kind = "edges"
                /\ attempts[p].res.ok
                /\ RefersToRegistered(item, p)) =>
                   { r \in estore : r.id = attempts[p].res.id }
                     = { [id |-> attempts[p].res.id, label |-> item.label,
                          start |-> LastRegistered(item.start_vertex_id.ext, p),
                          end |-> LastRegistered(item.end_vertex_id.ext, p)] }

\* Two vertices and one edge in: two vertex successes, one edge success, one
\* relationship between the two.
C12_Witness ==
    /\ call = "bulk_ingest_from_dict"
    /\ ipc = "idle" /\ returned.kind = "edges"
    /\ Len(attempts) = 3
    /\ attempts[1].kind = "vertices" /\ attempts[1].ext = "x1"
    /\ attempts[2].kind = "vertices" /\ attempts[2].ext = "x2"
    /\ attempts[3].kind = "edges" /\ attempts[3].res.ok
    /\ item.start_vertex_id = ExtRef("x1") /\ item.end_vertex_id = ExtRef("x2")
    /\ estore = { [id |-> attempts[3].res.id, label |-> "WORKS_AT",
                   start |-> attempts[1].res.id, end |-> attempts[2].res.id] }

----------------------------------------------------------------------------
(* Resolution of edge endpoints. *)

Hints == {NoLabel, "Person"}

\* This step attempted an edge (item' is the edge, the last entry of
\* attempts' its outcome).
EdgeAttempted ==
    /\ Len(attempts') = Len(attempts) + 1
    /\ attempts'[Len(attempts')].kind = "edges"

\* The fallback query for ref matches more than one vertex record.
Ambiguous(ref, label, m, vs) ==
    /\ ~ref.int /\ ref.ext \notin DOMAIN m
    /\ label # NoLabel
    /\ Cardinality(FallbackMatches(vs, label, ref.ext)) > 1

\* ref is an external id that is not in the mapping and that no vertex
\* record matches (or there is no label to look it up with).
NoMatch(ref, label, m, vs) ==
    /\ ~ref.int /\ ref.ext \notin DOMAIN m
    /\ (label = NoLabel \/ FallbackMatches(vs, label, ref.ext) = {})

\* ref needs no lookup: it is an internal id, or a cached external id.
Known(ref, m) == ref.int \/ ref.ext \in DOMAIN m

KnownId(ref, m) == IF ref.int THEN ref.id ELSE m[ref.ext]

\* C16: when the fallback lookup for the start reference of an edge matches
\* more than one vertex record, the resolution fails: the edge is not
\* created, nothing is cached in the mapping, and none of the matching ids
\* is used.
C16_AmbiguousReferenceFails ==
    [][ (/\ EdgeAttempted /\ connected
         /\ Ambiguous(item'.start_vertex_id, item'.start_vertex_label,
                      vertex_id_mapping, vstore)) =>
            /\ ~attempts'[Len(attempts')].res.ok
            /\ vertex_id_mapping' = vertex_id_mapping
            /\ estore' = estore ]_vars

\* C17: an external id that is neither in the mapping nor matched by a vertex
\* record makes the resolution fail after at most one lookup and with the
\* mapping as it was; the edge attempted with such a reference fails, no edge
\* is created, the reference is not cached, no entry of the mapping changes,
\* and the item is attempted once.
C17_UnresolvedReferenceFailsEdge ==
    [][ /\ \A ref \in Refs, label \in Hints :
              NoMatch(ref, label, vertex_id_mapping, vstore) =>
                  \A o \in ResolveOutcomes(ref, label, vertex_id_mapping, vstore) :
                      ~o.ok /\ o.map = vertex_id_mapping /\ o.q <= 1
        /\ EdgeAttempted =>
              \A end \in { [ref |-> item'.start_vertex_id,
                            label |-> item'.start_vertex_label],
                           [ref |-> item'.end_vertex_id,
                            label |-> item'.end_vertex_label] } :
                  NoMatch(end.ref, end.label, vertex_id_mapping, vstore) =>
                      /\ ~attempts'[Len(attempts')].res.ok
                      /\ estore' = estore
                      /\ end.ref.ext \notin DOMAIN vertex_id_mapping'
                      /\ \A x \in DOMAIN vertex_id_mapping :
                            /\ x \in DOMAIN vertex_id_mapping'
                            /\ vertex_id_mapping'[x] = vertex_id_mapping[x]
                      /\ ops' = ops + 1 ]_vars

C17_Witness ==
    /\ connected
    /\ Len(attempts) > 0
    /\ attempts[Len(attempts)].kind = "edges"
    /\ ~attempts[Len(attempts)].res.ok
    /\ item.start_vertex_id = IntRef(1)
    /\ \E v \in vstore : v.id = 1
    /\ item.end_vertex_id = ExtRef("x2")
    /\ item.end_vertex_label = "Person"
    /\ NoMatch(item.end_vertex_id, item.end_vertex_label,
               vertex_id_mapping, vstore)
    /\ estore = {}

\* C18: a reference that carries an internal id resolves to that id, and a
\* cached external id to the cached id, in both cases with no store
\* statement and with the mapping unchanged; a lookup is issued only for an
\* external id that is not in the mapping.  An edge attempted with two such
\* references leaves the mapping as it was and, when created, joins the two
\* ids.
C18_LookupOnlyForUncachedExternalId ==
    [][ /\ \A ref \in Refs, label \in Hints :
              LET outs == ResolveOutcomes(ref, label, vertex_id_mapping, vstore)
              IN  /\ Known(ref, vertex_id_mapping) =>
                        outs = { [ok |-> TRUE,
                                  id |-> KnownId(ref, vertex_id_mapping),
                                  map |-> vertex_id_mapping, q |-> 0] }
                  /\ \A o \in outs :
                        o.q > 0 => ~Known(ref, vertex_id_mapping)
        /\ (/\ EdgeAttempted
            /\ Known(item'.start_vertex_id, vertex_id_mapping)
            /\ Known(item'.end_vertex_id, vertex_id_mapping)) =>
              /\ vertex_id_mapping' = vertex_id_mapping
              /\ attempts'[Len(attempts')].res.ok =>
                    estore' = estore \cup
                        { [id |-> attempts'[Len(attempts')].res.id,
                           label |-> item'.label,
                           start |-> KnownId(item'.start_vertex_id,
                                             vertex_id_mapping),
                           end |-> KnownId(item'.end_vertex_id,
                                           vertex_id_mapping)] } ]_vars

C18_Witness ==
    /\ Len(attempts) > 0
    /\ attempts[Len(attempts)].kind = "edges"
    /\ attempts[Len(attempts)].res.ok
    /\ item.start_vertex_id = IntRef(1)
    /\ item.end_vertex_id = ExtRef("x1")
    /\ item.end_vertex_label = "Person"
    /\ "x1" \in DOMAIN vertex_id_mapping
    /\ \E r \in estore : r.start = 1 /\ r.end = vertex_id_mapping["x1"]

\* C19: once the connection has become unusable the running method attempts
\* no further item, and the step that finds it unusable raises to the caller.
C19_ConnectionLossIsFatal ==
    [][ /\ ~connected => Len(attempts') <= Len(attempts)
        /\ (connected /\ ~connected') => raised' ]_vars


(***************************************************************************)
(* PART III.  Maintenance of a date-partitioned table:                     *)
(* add_future_date_partitions and cleanup_old_date_partitions.             *)
(***************************************************************************)

\* The table the utilities are given: person, as the date-and-range script
\* leaves it (year partitions, DEFAULT, rows reinserted).
DateTable(rows) ==
    LET kids == [k \in 1..Len(DatePlan.bounds) |->
                    RangePart("y", DatePlan.bounds[k].lo, DatePlan.bounds[k])]
        empty == [Parent("date") EXCEPT !.parts = Append(kids, DefaultPart)]
    IN  InsertInto(InsertInto(empty, DatedRows(rows)), NoDateRows(rows))

\* datetime.now().year when a utility runs: the year of the reorganization or
\* a later one.
Clock == CurrentYear..(CurrentYear + MaxDrift)

\* FROM ('{year}-01-01') TO ('{year + 1}-01-01')
YearRange(y) == [lo |-> y, hi |-> y + 1, open |-> FALSE]

\* CREATE TABLE {table_name}_y{year} PARTITION OF ...: refused when the name
\* is taken, when the range overlaps a partition, or when the default
\* partition holds a row of the range.
CanAddYear(tbl, y) ==
    /\ tbl.kind = "part"
    /\ \A i \in 1..Len(tbl.parts) : ~(tbl.parts[i].tag = "y" /\ tbl.parts[i].n = y)
    /\ CanAttach(tbl.parts, YearRange(y))
    /\ \A i \in 1..Len(tbl.parts) :
          tbl.parts[i].dflt =>
              \A r \in tbl.parts[i].rows :
                  LET k == KeyOf(r, tbl.key)
                  IN  k.null \/ ~InRange(YearRange(y), k.v)

MaintFrame == UNCHANGED <<script, plan, task, pc, child, temps, orig, failed,
                          rbFault, report>>

\* add_future_date_partitions(graph_name, "person", years_ahead) is called.
AddFutureBegin ==
    /\ mop = "none" /\ mcalls < MaxCalls
    /\ \E years_ahead \in 0..MaxYearsAhead, clock \in Clock :
          /\ mnow' = clock
          /\ myear' = clock + 1
          /\ mlast' = clock + years_ahead
    /\ mop' = "add"
    /\ mlog' = <<>>
    /\ mcalls' = mcalls + 1
    /\ UNCHANGED <<tables, faults, warned>>
    /\ MaintFrame
    /\ UNCHANGED <<ingestVars, indexVars, pureVars, sessVars>>

\* One pass of the loop: the partition of myear is created, or the
\* statement raises and the failure is printed.
AddFutureYear ==
    /\ mop = "add" /\ myear <= mlast
    /\ \/ /\ CanAddYear(tables["person"], myear)
          /\ tables' = [tables EXCEPT !["person"].parts =
                Append(@, RangePart("y", myear, YearRange(myear)))]
          /\ mlog' = Append(mlog, "created")
          /\ UNCHANGED faults
       \/ /\ (~CanAddYear(tables["person"], myear) \/ faults < MaxFaults)
          /\ faults' = IF CanAddYear(tables["person"], myear)
                       THEN faults + 1 ELSE faults
          /\ mlog' = Append(mlog, "failed")
          /\ UNCHANGED tables
    /\ myear' = myear + 1
    /\ UNCHANGED <<mop, mnow, mlast, warned, mcalls>>
    /\ MaintFrame
    /\ UNCHANGED <<ingestVars, indexVars, pureVars, sessVars>>

\* The loop is exhausted: conn.close() and return.
AddFutureEnd ==
    /\ mop = "add" /\ myear > mlast
    /\ mop' = "none"
    /\ UNCHANGED <<tables, faults, mnow, myear, mlast, mlog, warned, mcalls>>
    /\ MaintFrame
    /\ UNCHANGED <<ingestVars, indexVars, pureVars, sessVars>>

\* A cleanup that also takes the partition of the cutoff year.
RetirableInclusive(tbl, cutoff) ==
    { tbl.parts[i].n : i \in { j \in 1..Len(tbl.parts) :
                                 tbl.parts[j].tag = "y"
                                 /\ tbl.parts[j].n <= cutoff } }

\* tablename LIKE '{table_name}_y%' AND tablename NOT LIKE '%_default', then
\* if year < cutoff_year: the years of the partitions warned about.
Retirable(tbl, cutoff) ==
    { tbl.parts[i].n : i \in { j \in 1..Len(tbl.parts) :
                                 tbl.parts[j].tag = "y"
                                 /\ tbl.parts[j].n < cutoff } }

\* cleanup_old_date_partitions(graph_name, "person", keep_years): the query
\* and the loop over its rows (the DROP is commented out), or the query
\* raises and the error is printed.
CleanupOldDatePartitions ==
    /\ mop = "none" /\ mcalls < MaxCalls
    /\ \E keep_years \in 0..MaxKeep, clock \in Clock :
          /\ mnow' = clock
          /\ mlast' = clock - keep_years
          /\ \/ /\ warned' = Retirable(tables["person"], clock - keep_years)
                /\ mlog' = <<"scanned">>
             \/ /\ warned' = {}
                /\ mlog' = <<"error">>
    /\ mcalls' = mcalls + 1
    /\ UNCHANGED <<mop, myear, tables, faults>>
    /\ MaintFrame
    /\ UNCHANGED <<ingestVars, indexVars, pureVars, sessVars>>

InitMaint ==
    /\ SessionInit
    /\ MaintQuiet
    /\ IndexQuiet
    /\ PureQuiet
    /\ script = "date_and_range"
    /\ plan = CodeIdPlan
    /\ task = Len(Tasks("date_and_range")) + 1
    /\ pc = "done"
    /\ child = 1
    /\ \E S \in RowSets :
          /\ tables = [t \in TableNames |->
                          IF t = "person" THEN DateTable(S) ELSE Flat({})]
          /\ orig = [t \in TableNames |-> IF t = "person" THEN S ELSE {}]
    /\ temps = [t \in TableNames |-> Absent]
    /\ faults = 0
    /\ failed = [t \in TableNames |-> "none"]
    /\ rbFault = [t \in TableNames |-> "none"]
    /\ report = [t \in TableNames |->
                    IF t = "person" THEN <<"success">> ELSE <<>>]

NextMaint ==
    \/ AddFutureBegin
    \/ AddFutureYear
    \/ AddFutureEnd
    \/ CleanupOldDatePartitions

SpecMaint == InitMaint /\ [][NextMaint]_vars

----------------------------------------------------------------------------
(* Properties of the maintenance utilities. *)

\* C21: after any sequence of add_future_date_partitions calls, also when the
\* creation of some year fails, the year partitions of the table are
\* contiguous in declaration order: a partition whose lower bound is not the
\* last upper bound is never attached.
C21_DatePartitionsStayContiguous ==
    WellFormed([bounds |-> RangesOf(tables["person"])])

\* This step is a whole call of cleanup_old_date_partitions.
CleanupStep == mop = "none" /\ mop' = "none" /\ mcalls' = mcalls + 1

C23_IndexFailureIsReportedAndLocal ==
    [][ ipos' # ipos =>
          /\ tables' = tables /\ temps' = temps /\ report' = report
          /\ ilog'[IndexOrder[ipos]] \in {"indexed", "error"}
          /\ (indexes'[IndexOrder[ipos]] # {"id", "properties_gin"} =>
                 ilog'[IndexOrder[ipos]] = "error")
          /\ ipos' = ipos + 1 ]_vars

C23_Witness ==
    /\ pc = "done" /\ ipos = Len(IndexOrder) + 1
    /\ tables["person"].kind = "part"
    /\ ilog["person"] = "error" /\ indexes["person"] = {"id"}
    /\ ilog["product"] = "indexed"
    /\ indexes["product"] = {"id", "properties_gin"}

C27_ResolvedVertexHasTheLabelAsked ==
    (/\ item # NoItem /\ attempts # <<>>
     /\ attempts[Len(attempts)].kind = "edges"
     /\ attempts[Len(attempts)].res.ok) =>
        \A e \in estore :
            e.id = attempts[Len(attempts)].res.id =>
                /\ (~item.start_vertex_id.int /\ item.start_vertex_label # NoLabel) =>
                       \A v \in vstore :
                           v.id = e.start => v.label = item.start_vertex_label
                /\ (~item.end_vertex_id.int /\ item.end_vertex_label # NoLabel) =>
                       \A v \in vstore :
                           v.id = e.end => v.label = item.end_vertex_label

\* ===========================================================================
\* PART IV.  Two pure functions of the ingestion module, on inputs drawn from
\* bounded sets: the text of the statement ingest_vertex sends for a string
\* property value, and the counts the batch methods log.

\* The characters a property value is made of: a plain character, the double
\* quote, the backslash and the dollar sign.
Alphabet == {"a", "\"", "\\", "$"}

StringsUpTo(n) == UNION { [1..k -> Alphabet] : k \in 0..n }

\* json.dumps on the characters of a str: the double quote and the backslash
\* get a backslash in front, every other character is copied.
RECURSIVE JsonEscape(_)
JsonEscape(s) ==
    IF s = <<>> THEN <<>>
    ELSE (IF Head(s) \in {"\"", "\\"} THEN <<"\\", Head(s)>> ELSE <<Head(s)>>)
         \o JsonEscape(Tail(s))

\* json.dumps of a str.
JsonString(s) == <<"\"">> \o JsonEscape(s) \o <<"\"">>

\* The text before the value: the opening $$ of cypher(...), the CREATE clause
\* up to the map (one token), and json.dumps of the key.
QueryHead == <<"$", "$", "CREATE (v:Label ", "{">> \o JsonString(<<"k">>) \o <<":">>

\* The text after the value: the end of the map, the RETURN clause (one
\* token), and the closing $$.
QueryTail == <<"}", ") RETURN id(v)", "$", "$">>

\* _convert_properties_to_agtype({"k": v}) placed in the f-string of
\* ingest_vertex.
CypherQuery(v) == QueryHead \o JsonString(v) \o QueryTail

\* PostgreSQL scans a $$-quoted string up to the first $$ after the opening
\* one: the position of that $$ (0 when there is none).
RECURSIVE DollarQuoteEnd(_, _)
DollarQuoteEnd(q, i) ==
    IF i + 1 > Len(q) THEN 0
    ELSE IF q[i] = "$" /\ q[i + 1] = "$" THEN i
    ELSE DollarQuoteEnd(q, i + 1)

\* The Cypher scanner reads a double-quoted string from the character after
\* the opening quote: a backslash takes the next character with it, a quote
\* ends the string (0 when the text ends first).
RECURSIVE StringEnd(_, _)
StringEnd(q, i) ==
    IF i > Len(q) THEN 0
    ELSE IF q[i] = "\\" THEN StringEnd(q, i + 2)
    ELSE IF q[i] = "\"" THEN i
    ELSE StringEnd(q, i + 1)

\* The entries a result list can hold: None, or int(result[0]).
ResultValues == {None} \cup {[ok |-> TRUE, id |-> n] : n \in 0..MaxIdValue}

ResultLists == UNION { [1..k -> ResultValues] : k \in 0..MaxIds }

\* ingest_vertex builds the statement for the value.
BuildQuery ==
    /\ pfun = "query" /\ pquery = <<>>
    /\ pquery' = CypherQuery(pval)
    /\ UNCHANGED <<pfun, pval, pids, plog>>
    /\ UNCHANGED <<reorgVars, ingestVars, maintVars, indexVars, sessVars>>

\* A batch method logs its counts for the list it returns.
LogBatch ==
    /\ pfun = "log" /\ plog = NoLog
    /\ plog' = LogCounts(pids)
    /\ UNCHANGED <<pfun, pval, pquery, pids>>
    /\ UNCHANGED <<reorgVars, ingestVars, maintVars, indexVars, sessVars>>

InitPure ==
    /\ SessionInit /\ ReorgQuiet /\ MaintQuiet /\ IndexQuiet
    /\ pquery = <<>> /\ plog = NoLog
    /\ \/ pfun = "query" /\ pval \in StringsUpTo(MaxStr) /\ pids = <<>>
       \/ pfun = "log" /\ pval = <<>> /\ pids \in ResultLists

NextPure == BuildQuery \/ LogBatch

SpecPure == InitPure /\ [][NextPure]_vars

\* C24: in the statement built for any string value, the $$-quoted query ends
\* at its closing $$ only, and the value's quoted literal ends at its closing
\* quote only, so nothing of the value is read as statement text.
C24_ValueStaysInsideItsLiteral ==
    pquery # <<>> =>
        /\ DollarQuoteEnd(pquery, 3) = Len(pquery) - 1
        /\ StringEnd(pquery, Len(QueryHead) + 2) = Len(pquery) - Len(QueryTail)

\* C25: the logged counts are the number of ids and the number of None in the
\* list, and they add up to its length.
C25_LogCountsMatchResults ==
    plog # NoLog =>
        /\ plog.successful = Cardinality({j \in 1..Len(pids) : pids[j] # None})
        /\ plog.failed = Cardinality({j \in 1..Len(pids) : pids[j] = None})
        /\ plog.successful + plog.failed = Len(pids)

\* ===========================================================================
\* PART V.  The life of ingestion sessions: with AGEGraphIngestion(...) as
\* ingestion: ..., one session after the other on the same store.

\* disconnect(): if self.conn: self.conn.close()
Disconnect(n, has_conn) == IF has_conn THEN n - 1 ELSE n

\* __enter__: connect(). psycopg.connect raises and no connection exists; or
\* the connection is opened and LOAD 'age' or SET search_path raises, and
\* connect() logs and re-raises; or all succeeds and the block is entered.
\* When __enter__ raises, the with statement does not call __exit__.
Enter ==
    /\ session = "new"
    /\ \/ /\ session' = "failed"
          /\ UNCHANGED <<open_conns, connected>>
       \/ /\ session' = "failed"
          /\ open_conns' = open_conns + 1
          /\ UNCHANGED connected
       \/ /\ session' = "in"
          /\ open_conns' = open_conns + 1
          /\ connected' = TRUE
    /\ UNCHANGED <<nsess, earlier>>
    /\ UNCHANGED <<vstore, estore, nextId, vertex_id_mapping, call, todo, ipc,
                   batch, input_len, batch_size, loop_i, batch_ids, ids,
                   attempts, callV, returned, raised, ops, item>>
    /\ UNCHANGED <<reorgVars, maintVars, indexVars, pureVars>>

\* __exit__: the block ends, normally or by an exception of the code in it,
\* and disconnect() closes the connection.
Exit ==
    /\ session = "in" /\ ipc = "idle"
    /\ \E exc \in BOOLEAN : session' = IF exc THEN "closed_exc" ELSE "closed"
    /\ open_conns' = Disconnect(open_conns, TRUE)
    /\ connected' = FALSE
    /\ UNCHANGED <<nsess, earlier>>
    /\ UNCHANGED <<vstore, estore, nextId, vertex_id_mapping, call, todo, ipc,
                   batch, input_len, batch_size, loop_i, batch_ids, ids,
                   attempts, callV, returned, raised, ops, item>>
    /\ UNCHANGED <<reorgVars, maintVars, indexVars, pureVars>>

\* The external ids the mapping of a session holds, with their ids.
Entries(m) == { [ext |-> x, id |-> m[x]] : x \in DOMAIN m }

\* __init__ of the next session: no connection and an empty mapping; the
\* store keeps what the sessions before wrote.
NewSession ==
    /\ session \in {"closed", "closed_exc", "failed"}
    /\ nsess < MaxSessions
    /\ nsess' = nsess + 1
    /\ session' = "new"
    /\ earlier' = earlier \cup Entries(vertex_id_mapping)
    /\ vertex_id_mapping' = EmptyMap
    /\ call' = "none" /\ todo' = <<>> /\ ipc' = "idle" /\ batch' = 0
    /\ input_len' = 0 /\ batch_size' = 1 /\ loop_i' = 0
    /\ batch_ids' = <<>> /\ ids' = <<>> /\ attempts' = <<>> /\ callV' = 0
    /\ returned' = NoReturn /\ raised' = FALSE /\ item' = NoItem
    /\ connected' = FALSE
    /\ UNCHANGED <<vstore, estore, nextId, ops, open_conns>>
    /\ UNCHANGED <<reorgVars, maintVars, indexVars, pureVars>>

InitSessions ==
    /\ ObjectInit /\ connected = FALSE
    /\ ReorgQuiet /\ MaintQuiet /\ IndexQuiet /\ PureQuiet
    /\ session = "new" /\ open_conns = 0 /\ nsess = 1 /\ earlier = {}

NextSessions ==
    \/ Enter
    \/ Exit
    \/ NewSession
    \/ CallVerticesBatch
    \/ CallEdgesBatch
    \/ CallBulkFromDict
    \/ CallCsvFiles
    \/ VertexItem
    \/ EdgeItem
    \/ BatchReturn

SpecSessions == InitSessions /\ [][NextSessions]_vars

\* C28: in a later session, every external id an earlier session registered,
\* and that the session has not cached yet, is resolved by the lookup for the
\* label of its vertex to the id of that vertex.
C28_EarlierVertexResolvesByFallback ==
    (nsess > 1 /\ session = "in") =>
        \A r \in earlier :
            r.ext \notin DOMAIN vertex_id_mapping =>
                \A v \in vstore :
                    v.id = r.id =>
                        \E o \in ResolveOutcomes(ExtRef(r.ext), v.label,
                                                 vertex_id_mapping, vstore) :
                            o.ok /\ o.id = r.id

\* C30: once the scope of a session is left, or could not be entered, the
\* session holds no open connection.
C30_NoConnectionOutlivesItsSession ==
    session # "in" => open_conns = 0

====
